---- MODULE Spec2Model ----
(***************************************************************************)
(* The electron-updater UpdaterManager (boolean status flags) of           *)
(* electron-menubar-app-boilerplate, as a state machine.                   *)
(*                                                                         *)
(* Every handler of the class is one action.  An `await` splits a method   *)
(* into the part before it and its continuation; the continuations that    *)
(* are pending are counted in the variables below.  The transport          *)
(* (electron-updater's autoUpdater) and the user are the environment: the  *)
(* transport emits an event only for an operation that is outstanding.     *)
(* Time is counted in hours.                                               *)
(*                                                                         *)
(* Beside it, each on its own under a specification of its own: the        *)
(* GitHub-release UpdaterManager and VersionUtils, parseReleaseNotes, the  *)
(* renderer's UpdateNotification, toast container and useUpdateStatus      *)
(* hooks with the messages sent to them.                                   *)
(***************************************************************************)
EXTENDS Integers, FiniteSets, Sequences, TLC

\* ------------------------------------------------------------------ bounds
MaxInFlight == 3       \* promises awaited and timers armed at once
MaxNow == 48           \* the clock stops here
MaxSegments == 2       \* segments of a dotted numeric version
MaxRawLen == 3         \* length of the arbitrary strings given to parseVersion
MaxCalls == 2          \* checkForUpdates calls of the GitHub-release manager
MaxBodyLen == 3        \* characters of a release body
MaxPushes == 3         \* state changes of the coordinator a hook lives through
MaxToastCap == 3       \* the largest maxToasts a container is given
MaxAdds == 5           \* toasts added to one container
MaxNotes == 5          \* entries of updateInfo.releaseNotes
MaxClicks == 2         \* clicks on the buttons of one UpdateNotification

\* ------------------------------------------------------- program constants
CHECK_INTERVAL_24H == 24
MAX_RETRY_ATTEMPTS == 3

StartNow == 25                     \* Date.now() at construction
TickHours == {23}                  \* how far the clock may jump in one step
StoredCheckTimes == {0, 24}        \* persisted lastUpdateCheck at construction:
                                   \*   absent or 25 hours old (0), 1 hour old (24)
Percents == {495, 1204}            \* progressObj.percent, in tenths of a percent

\* the segments of the dotted numeric versions compared and longer versions
\* compared besides, the characters of the arbitrary strings parsed and
\* longer strings parsed besides
SegmentValues == {0, 1, 2, 9, 10}
VersionExamples == {<<1, 2, 0>>, <<1, 5, 2>>, <<2, 0, 0>>}
RawAlphabet == {"v", "V", "-", "2", "."}
RawExamples ==
  { <<"2", ".", "0", ".", "0">>,
    <<"v", "2", ".", "0", ".", "0">>,
    <<"V", "2", ".", "0", ".", "0">>,
    <<"r", "e", "l", "e", "a", "s", "e", "-", "2", ".", "0", ".", "0">>,
    <<"1", ".", "x", ".", "7", "b">> }

\* who called checkForUpdates: a timer, or the UI, told apart by whether
\* automatic retry had given up when it called
Origins == {"manual", "manual after retries", "timer"}
\* where an autoUpdater.checkForUpdates() call stands: called, then
\* checking-for-update emitted, then its result or its error emitted; the
\* promise settles last
CheckPhases == {"called", "announced", "succeeded", "failed"}

\* where an autoUpdater.downloadUpdate() call stands: refused when no update
\* was found before, else running; then update-downloaded or error emitted; the
\* promise settles last
DownloadPhases == {"refused", "running", "done", "failed"}

VARIABLES
  updateStatus,          \* this.updateStatus
  lastCheckTime,         \* this.lastCheckTime
  currentCheckTimeout,   \* this.currentCheckTimeout: the handle and its timer
  staleTimeouts,         \* armed in-flight timers whose handle was overwritten
  checkOnStartupTimer,   \* this.checkOnStartupTimer: the handle and its timer
  staleStartupTimers,    \* armed startup timers whose handle was overwritten
  retryTimers,           \* armed setTimeout callbacks of handleRetry
  probing,               \* checkForUpdates calls awaiting checkNetworkConnectivity
  lastCall,              \* how the latest checkForUpdates call left its guard
  auChecks,              \* unsettled autoUpdater.checkForUpdates calls, by phase
  auDownloads,           \* unsettled autoUpdater.downloadUpdate calls, by phase
  auUpdateFound,         \* the transport has found an update to download
  installing,            \* autoUpdater.quitAndInstall calls that have not failed
  notesPending,          \* parseReleaseNotes calls awaiting their fetch
  autoDlPending,         \* handleAutoDownload calls awaiting getSettings
  dialogs,               \* install dialogs open
  savePending,           \* saveLastCheckTime calls awaiting getSettings
  saveWrites,            \* saveLastCheckTime calls awaiting saveSettings (their snapshot)
  loadPending,           \* loadLastCheckTime awaiting getSettings
  schedPending,          \* scheduleStartupCheck calls awaiting getSettings
  updPending,            \* updateSettings calls awaiting getSettings
  settings,              \* the settings store
  now,                   \* Date.now()
  lastBroadcast,         \* <<payload>> of the latest updater:status message, if any
  github,                \* the GitHub-release UpdaterManager and its calls
  versionUtils,          \* a use of VersionUtils: its arguments and its result
  notesCall,             \* a parseReleaseNotes call: its arguments and its result
  notification,          \* a mounted UpdateNotification component
  toasts,                \* the toast list of ToastContainer / ToastProvider
  hook,                  \* a mounted useUpdateStatus hook and what is sent to it
  deferralHook           \* a mounted useUpdateStatus hook with deferral, likewise

timeoutVars == <<currentCheckTimeout, staleTimeouts>>
startupVars == <<checkOnStartupTimer, staleStartupTimers>>
checkVars == <<probing, lastCall, auChecks>>
downloadVars == <<notesPending, autoDlPending, auDownloads, auUpdateFound>>
installVars == <<installing, dialogs>>
saveVars == <<savePending, saveWrites>>
initVars == <<loadPending, schedPending, updPending>>
storeVars == <<settings, lastCheckTime, now>>
\* the modules of src/modules/updaterManager.ts that come before the class above
\* the renderer's components and hooks
rendererVars == <<notification, toasts, hook, deferralHook>>
otherModules == <<github, versionUtils, notesCall, rendererVars>>
\* the electron-updater manager
updaterVars == <<updateStatus, lastBroadcast, timeoutVars, startupVars,
                 retryTimers, checkVars, downloadVars, installVars, saveVars,
                 initVars, storeVars>>

vars == <<updateStatus, lastCheckTime, currentCheckTimeout, staleTimeouts,
          checkOnStartupTimer, staleStartupTimers, retryTimers, probing,
          lastCall, auChecks, auDownloads, auUpdateFound, installing,
          notesPending, autoDlPending,
          dialogs, savePending, saveWrites, loadPending, schedPending,
          updPending, settings, now, lastBroadcast, github, versionUtils,
          notesCall, notification, toasts, hook, deferralHook>>

\* ------------------------------------------------------------ VersionUtils
\* A string is a sequence of characters.
DigitValue ==
  ("0" :> 0) @@ ("1" :> 1) @@ ("2" :> 2) @@ ("3" :> 3) @@ ("4" :> 4) @@
  ("5" :> 5) @@ ("6" :> 6) @@ ("7" :> 7) @@ ("8" :> 8) @@ ("9" :> 9)

IsDigit(c) == c \in DOMAIN DigitValue

\* version.replace(/^v/, ''): one lowercase v at the start is dropped
StripPrefix(version) ==
  IF version # <<>> /\ Head(version) = "v" THEN Tail(version) ELSE version

\* String.prototype.split('.'): the pieces between the dots, empty ones kept
RECURSIVE Split(_)
Split(str) ==
  IF str = <<>> THEN << <<>> >>
  ELSE LET rest == Split(Tail(str))
       IN IF Head(str) = "."
            THEN << <<>> >> \o rest
            ELSE << <<Head(str)>> \o Head(rest) >> \o Tail(rest)

\* the value of the longest run of digits at the start of str, after acc
RECURSIVE DigitsValue(_, _)
DigitsValue(str, acc) ==
  IF str = <<>> \/ ~IsDigit(Head(str)) THEN acc
  ELSE DigitsValue(Tail(str), 10 * acc + DigitValue[Head(str)])

\* parseInt(str, 10): an optional sign, then digits up to the first other
\* character; NaN when no digit follows (the strings here hold no whitespace)
ParseInt(str) ==
  LET signed == str # <<>> /\ Head(str) \in {"-", "+"}
      body == IF signed THEN Tail(str) ELSE str
  IN IF body = <<>> \/ ~IsDigit(Head(body))
       THEN [nan |-> TRUE, value |-> 0]
       ELSE [nan |-> FALSE,
             value |-> IF Head(str) = "-" THEN 0 - DigitsValue(body, 0)
                                          ELSE DigitsValue(body, 0)]

\* parseInt(num, 10) || 0: NaN and 0 are falsy
OrZero(parsed) == IF parsed.nan THEN 0 ELSE parsed.value

\* VersionUtils.parseVersion
parseVersion(version) ==
  LET parts == Split(StripPrefix(version))
  IN [i \in 1..Len(parts) |-> OrZero(ParseInt(parts[i]))]

\* parts[i] || 0: a missing element counts as 0
PartOrZero(parts, i) == IF i <= Len(parts) THEN parts[i] ELSE 0

\* Math.min where Math.max is meant
Max_Min(a, b) == IF a <= b THEN a ELSE b

\* Math.max
Max(a, b) == IF a >= b THEN a ELSE b

\* the loop of isNewerVersion from index i on
RECURSIVE NewerFrom(_, _, _, _)
NewerFrom(currentParts, latestParts, i, maxLength) ==
  IF i > maxLength THEN FALSE
  ELSE IF PartOrZero(latestParts, i) > PartOrZero(currentParts, i) THEN TRUE
  ELSE IF PartOrZero(latestParts, i) < PartOrZero(currentParts, i) THEN FALSE
  ELSE NewerFrom(currentParts, latestParts, i + 1, maxLength)

\* VersionUtils.isNewerVersion
isNewerVersion(current, latest) ==
  LET currentParts == parseVersion(current)
      latestParts == parseVersion(latest)
  IN NewerFrom(currentParts, latestParts, 1,
               Max(Len(currentParts), Len(latestParts)))

\* how a dotted numeric version is written: decimal segments joined by dots
DigitChars == <<"0", "1", "2", "3", "4", "5", "6", "7", "8", "9">>

RECURSIVE Decimal(_)
Decimal(n) ==
  IF n < 10 THEN <<DigitChars[n + 1]>>
  ELSE Decimal(n \div 10) \o Decimal(n % 10)

RECURSIVE Dotted(_)
Dotted(segments) ==
  IF Len(segments) = 1 THEN Decimal(segments[1])
  ELSE Decimal(Head(segments)) \o <<".">> \o Dotted(Tail(segments))

Versions ==
  VersionExamples \cup UNION {[1..n -> SegmentValues] : n \in 1..MaxSegments}
RawStrings ==
  RawExamples \cup UNION {[1..n -> RawAlphabet] : n \in 0..MaxRawLen}

\* the calls of checkForUpdates of the GitHub-release manager, what the
\* settings read of fetchLatestRelease finds, what fetch answers, and what
\* response.json() gives
CallIds == 1..MaxCalls
SettingsOutcomes == {"url", "no url", "bad url", "rejected"}
Responses == {"200", "404", "500", "TypeError"}
Releases ==
  {[kind |-> "rejected", tag_name |-> <<>>, assets |-> FALSE],
   [kind |-> "null", tag_name |-> <<>>, assets |-> FALSE]}
  \cup {[kind |-> "release", tag_name |-> <<"v">> \o Dotted(v), assets |-> a] :
          v \in {<<1, 5, 2>>, <<2, 0, 0>>}, a \in BOOLEAN}

\* the release bodies parseReleaseNotes may be answered, and how its fetch
\* and its response.json() may end
BodyAlphabet == {"a", " ", "\n"}
Bodies == UNION {[1..n -> BodyAlphabet] : n \in 0..MaxBodyLen}
NotesAnswers ==
  {[response |-> "rejected", json |-> "none", hasBody |-> FALSE, body |-> <<>>],
   [response |-> "not ok", json |-> "none", hasBody |-> FALSE, body |-> <<>>],
   [response |-> "ok", json |-> "rejected", hasBody |-> FALSE, body |-> <<>>],
   [response |-> "ok", json |-> "release", hasBody |-> FALSE, body |-> <<>>]}
  \cup {[response |-> "ok", json |-> "release", hasBody |-> TRUE, body |-> b] :
          b \in Bodies}

\* the statuses of the electron-updater manager as the hook reads them: no
\* update yet, an update found, the update downloaded
Statuses ==
  {[downloaded |-> FALSE, updateInfo |-> FALSE],
   [downloaded |-> FALSE, updateInfo |-> TRUE],
   [downloaded |-> TRUE, updateInfo |-> TRUE]}

\* what the manager may publish next: the same status again (another field
\* changed), or the update found, or the update downloaded
LaterStatuses(status) ==
  {st \in Statuses : /\ status.downloaded => st.downloaded
                     /\ status.updateInfo => st.updateInfo}

\* the release notes an UpdateNotification is given: short and long entries
Notes == {[title |-> "a", length |-> 12], [title |-> "b", length |-> 61]}
NoteLists == UNION {[1..n -> Notes] : n \in 0..MaxNotes}
UpdateInfos == {[version |-> "2.0.0", releaseNotes |-> l] : l \in NoteLists}
                 \cup {[version |-> "2.0.0"]}

\* the uses of VersionUtils to run
VersionCalls ==
  {[call |-> "isNewerVersion", current |-> c, latest |-> l, returned |-> FALSE,
    newer |-> FALSE, older |-> FALSE] : c \in Versions, l \in Versions}
  \cup {[call |-> "parseVersion", version |-> v, returned |-> FALSE,
         parts |-> <<>>] : v \in RawStrings}

\* ------------------------------------------------------------------- types
\* the GitHub-release manager when it is not constructed
GitHubUnused == <<>>

InitialStatus ==
  [checking |-> FALSE, available |-> FALSE, downloading |-> FALSE,
   downloaded |-> FALSE, error |-> "undefined", progress |-> "undefined",
   updateInfo |-> "undefined", retryCount |-> 0]

\* Math.round of a percentage given in tenths: floor(x + 0.5)
MathRound(tenths) == (tenths + 5) \div 10

Sum(f) == f["manual"] + f["manual after retries"] + f["timer"]

\* what is pending: awaited promises and armed timers (the two timers that
\* a handle names are not counted)
ChecksOutstanding ==
  auChecks["called"] + auChecks["announced"] + auChecks["succeeded"]
  + auChecks["failed"]

DownloadsOutstanding ==
  auDownloads["refused"] + auDownloads["running"] + auDownloads["done"]
  + auDownloads["failed"]

InFlight ==
  Sum(probing) + ChecksOutstanding + DownloadsOutstanding + installing
  + notesPending + autoDlPending + dialogs + savePending
  + Cardinality(saveWrites) + schedPending + updPending + retryTimers
  + staleTimeouts + staleStartupTimers

Room(k) == InFlight + k <= MaxInFlight

\* --------------------------------------------------------------- helpers
\* sendStatusToRenderer, n times in one handler, the last with payload st
Publish(st, n) ==
  /\ updateStatus' = st
  /\ lastBroadcast' = IF n > 0 THEN <<st>> ELSE lastBroadcast
  /\ UNCHANGED otherModules

\* no status change and no message in this step
Quiet == Publish(updateStatus, 0)

\* if (this.currentCheckTimeout) { clearTimeout(..); this.currentCheckTimeout = undefined }
\* cancels the timer the handle names; a timer whose handle was overwritten stays armed
ClearCheckTimeout ==
  /\ currentCheckTimeout' = "undefined"
  /\ UNCHANGED staleTimeouts

\* a cap test that lets one attempt too many through
RetryCapReached_OffByOne(st) == st.retryCount > MAX_RETRY_ATTEMPTS

\* the cap test of handleRetry
RetryCapReached(st) == st.retryCount >= MAX_RETRY_ATTEMPTS

\* handleRetry: the status it leaves, the timers it arms, the messages it sends
handleRetry(st) ==
  IF RetryCapReached(st)
    THEN [status |-> st, timers |-> 0, sent |-> 0]
    ELSE [status |-> [st EXCEPT !.retryCount = @ + 1, !.error = "Retrying..."],
          timers |-> 1, sent |-> 1]

\* shouldCheckForUpdates
shouldCheckForUpdates == now - lastCheckTime >= CHECK_INTERVAL_24H

\* a checkForUpdates without its guard
AlreadyChecking_NoGuard == FALSE

\* the guard at the head of checkForUpdates
AlreadyChecking == updateStatus.checking

\* checkForUpdates up to its first await: returns at once while checking,
\* otherwise starts the connectivity probe
checkForUpdates(origin) ==
  IF AlreadyChecking
    THEN /\ lastCall' = "skipped"
         /\ UNCHANGED probing
    ELSE /\ Room(1)
         /\ lastCall' = "probing"
         /\ probing' = [probing EXCEPT ![origin] = @ + 1]

\* the body of the in-flight timeout callback
TimeoutCallback ==
  IF updateStatus.checking
    THEN Publish([updateStatus EXCEPT !.checking = FALSE,
                                      !.error = "Update check timed out"], 1)
    ELSE Publish(updateStatus, 0)

\* --------------------------------------------------------------------- Init
InitUpdater ==
  /\ updateStatus = InitialStatus
  /\ lastCheckTime = 0
  /\ currentCheckTimeout = "undefined"
  /\ staleTimeouts = 0
  /\ checkOnStartupTimer = "undefined"
  /\ staleStartupTimers = 0
  /\ retryTimers = 0
  /\ probing = [o \in Origins |-> 0]
  /\ lastCall = "none"
  /\ auChecks = [ph \in CheckPhases |-> 0]
  /\ auDownloads = [ph \in DownloadPhases |-> 0]
  /\ auUpdateFound = FALSE
  /\ installing = 0
  /\ notesPending = 0
  /\ autoDlPending = 0
  /\ dialogs = 0
  /\ savePending = 0
  /\ saveWrites = {}
  /\ loadPending = TRUE
  /\ schedPending = 1
  /\ updPending = 0
  /\ settings \in [autoCheckDownloadAndInstall : BOOLEAN,
                   lastUpdateCheck : StoredCheckTimes,
                   updateDeferred : {FALSE}]
  /\ now = StartNow
  /\ lastBroadcast = <<>>

\* nothing of the renderer mounted
RendererUnused ==
  /\ notification = <<>>
  /\ toasts = <<>>
  /\ hook = <<>>
  /\ deferralHook = <<>>

\* the electron-updater manager constructed, the other modules not in use
Init ==
  /\ InitUpdater
  /\ github = GitHubUnused
  /\ versionUtils = <<>>
  /\ notesCall = <<>>
  /\ RendererUnused

\* the electron-updater manager at rest beside the other modules
UpdaterUnused ==
  /\ InitUpdater
  /\ ~settings.autoCheckDownloadAndInstall
  /\ settings.lastUpdateCheck = 0

\* the GitHub-release manager constructed, no call made yet
InitGitHub ==
  /\ UpdaterUnused
  /\ versionUtils = <<>>
  /\ notesCall = <<>>
  /\ RendererUnused
  /\ github = [state |-> "idle",
               currentVersion |-> Dotted(<<1, 5, 2>>),
               lastUpdateCheck |-> 0,
               lastCheckTime |-> 0,
               calls |-> [id \in CallIds |->
                           [pc |-> "ready", lastSet |-> "none",
                            response |-> "none", failedAt |-> "none",
                            result |-> [success |-> FALSE,
                                        error |-> "none"]]]]

\* parseReleaseNotes called, its fetch under way
InitNotes ==
  /\ UpdaterUnused
  /\ github = GitHubUnused
  /\ versionUtils = <<>>
  /\ RendererUnused
  /\ notesCall \in {[version |-> <<"2", ".", "0">>, answer |-> a,
                      pc |-> "fetch", notes |-> <<>>] : a \in NotesAnswers}

\* a window about to mount the status hook, the manager in any state
InitHook ==
  /\ UpdaterUnused
  /\ github = GitHubUnused
  /\ versionUtils = <<>>
  /\ notesCall = <<>>
  /\ notification = <<>>
  /\ toasts = <<>>
  /\ deferralHook = <<>>
  /\ hook \in {[state |-> st, changes |-> 0, pushes |-> <<>>,
                 request |-> "none", reply |-> "null",
                 updaterState |-> "null"] :
                  st \in {"idle", "checking", "available", "error"}}

\* a window about to mount the hook with deferral: the manager in any
\* status, the deferral persisted or not
InitDeferralHook ==
  /\ UpdaterUnused
  /\ github = GitHubUnused
  /\ versionUtils = <<>>
  /\ notesCall = <<>>
  /\ notification = <<>>
  /\ toasts = <<>>
  /\ hook = <<>>
  /\ deferralHook \in
       {[status |-> st, updateDeferred |-> d, changes |-> 0, pushes |-> <<>>,
         request |-> "none", reply |-> st, updateStatus |-> <<>>,
         lookups |-> 0, shouldShowNotification |-> FALSE] :
          st \in Statuses, d \in BOOLEAN}

\* a toast container mounted with some maxToasts, no toast shown yet
InitToasts ==
  /\ UpdaterUnused
  /\ github = GitHubUnused
  /\ versionUtils = <<>>
  /\ notesCall = <<>>
  /\ notification = <<>>
  /\ hook = <<>>
  /\ deferralHook = <<>>
  /\ toasts \in {[maxToasts |-> m, list |-> <<>>, added |-> 0] :
                   m \in 0..MaxToastCap}

\* App about to show an UpdateNotification
InitNotification ==
  /\ UpdaterUnused
  /\ github = GitHubUnused
  /\ versionUtils = <<>>
  /\ notesCall = <<>>
  /\ toasts = <<>>
  /\ hook = <<>>
  /\ deferralHook = <<>>
  /\ notification \in {[updateInfo |-> u, mounted |-> "not yet",
                         rendered |-> [section |-> FALSE, items |-> <<>>],
                         frameRequested |-> FALSE, isVisible |-> FALSE,
                         isLeaving |-> FALSE, autoTimer |-> "none",
                         dismissTimers |-> 0, clicks |-> 0,
                         onInstallCalls |-> 0, onDismissCalls |-> 0,
                         onDismissAfterUnmount |-> 0] : u \in UpdateInfos}

\* VersionUtils about to be used
InitVersionUtils ==
  /\ UpdaterUnused
  /\ github = GitHubUnused
  /\ notesCall = <<>>
  /\ RendererUnused
  /\ versionUtils \in VersionCalls

\* automatic retry has stopped: retryCount is at the cap, no retry timer is
\* armed and no check is in progress
RetriesExhausted ==
  /\ updateStatus.retryCount >= MAX_RETRY_ATTEMPTS
  /\ retryTimers = 0
  /\ Sum(probing) = 0
  /\ ChecksOutstanding = 0

\* ------------------------------------------------- checkForUpdates, callers
\* the UI (updater:checkForUpdates)
ManualCheck ==
  /\ checkForUpdates(IF RetriesExhausted THEN "manual after retries"
                                          ELSE "manual")
  /\ Quiet
  /\ UNCHANGED <<timeoutVars, startupVars, retryTimers, auChecks, downloadVars,
                 installVars, saveVars, initVars, storeVars>>

\* the 10-second timer of scheduleStartupCheck
StartupTimerFire ==
  /\ checkOnStartupTimer = "armed"
  /\ checkOnStartupTimer' = "fired"
  /\ checkForUpdates("timer")
  /\ Quiet
  /\ UNCHANGED <<timeoutVars, staleStartupTimers, retryTimers, auChecks,
                 downloadVars, installVars, saveVars, initVars, storeVars>>

\* a startup timer that a later scheduleStartupCheck lost the handle of
StaleStartupTimerFire ==
  /\ staleStartupTimers > 0
  /\ staleStartupTimers' = staleStartupTimers - 1
  /\ checkForUpdates("timer")
  /\ Quiet
  /\ UNCHANGED <<timeoutVars, checkOnStartupTimer, retryTimers, auChecks,
                 downloadVars, installVars, saveVars, initVars, storeVars>>

\* the RETRY_DELAY timer of handleRetry
RetryTimerFire ==
  /\ retryTimers > 0
  /\ retryTimers' = retryTimers - 1
  /\ checkForUpdates("timer")
  /\ Quiet
  /\ UNCHANGED <<timeoutVars, startupVars, auChecks, downloadVars,
                 installVars, saveVars, initVars, storeVars>>

\* --------------------------------- checkForUpdates, after the network probe
\* checkNetworkConnectivity answered false
ProbeFailed(origin) ==
  /\ probing[origin] > 0
  /\ probing' = [probing EXCEPT ![origin] = @ - 1]
  /\ Publish([updateStatus EXCEPT !.error = "No network connection available"], 1)
  /\ UNCHANGED <<timeoutVars, startupVars, retryTimers, lastCall, auChecks, downloadVars,
                 installVars, saveVars, initVars, storeVars>>

\* checkNetworkConnectivity answered true: set checking, arm the 30-second
\* timer, call autoUpdater.checkForUpdates
CheckStart(origin) ==
  /\ probing[origin] > 0
  /\ probing' = [probing EXCEPT ![origin] = @ - 1]
  /\ Publish([updateStatus EXCEPT !.checking = TRUE, !.error = "undefined"], 1)
  /\ Room(IF currentCheckTimeout = "armed" THEN 1 ELSE 0)
  /\ currentCheckTimeout' = "armed"
  /\ staleTimeouts' = IF currentCheckTimeout = "armed"
                        THEN staleTimeouts + 1 ELSE staleTimeouts
  /\ auChecks' = [auChecks EXCEPT !["called"] = @ + 1]
  /\ UNCHANGED <<startupVars, retryTimers, lastCall, downloadVars, installVars,
                 saveVars, initVars, storeVars>>

\* await autoUpdater.checkForUpdates() resolved
CheckResolved ==
  /\ auChecks["succeeded"] > 0
  /\ auChecks' = [auChecks EXCEPT !["succeeded"] = @ - 1]
  /\ ClearCheckTimeout
  /\ Quiet
  /\ UNCHANGED <<startupVars, retryTimers, probing, lastCall, downloadVars, installVars,
                 saveVars, initVars, storeVars>>

\* await autoUpdater.checkForUpdates() rejected: the catch block
CheckRejected ==
  /\ auChecks["failed"] > 0
  /\ auChecks' = [auChecks EXCEPT !["failed"] = @ - 1]
  /\ ClearCheckTimeout
  /\ Publish([updateStatus EXCEPT !.checking = FALSE, !.error = "err.message"], 1)
  /\ UNCHANGED <<startupVars, retryTimers, probing, lastCall, downloadVars, installVars,
                 saveVars, initVars, storeVars>>

\* the 30-second timer the handle names fires
TimeoutFire ==
  /\ currentCheckTimeout = "armed"
  /\ currentCheckTimeout' = "fired"
  /\ TimeoutCallback
  /\ UNCHANGED <<staleTimeouts, startupVars, retryTimers, checkVars,
                 downloadVars, installVars, saveVars, initVars, storeVars>>

\* a 30-second timer whose handle a later check overwrote fires
StaleTimeoutFire ==
  /\ staleTimeouts > 0
  /\ staleTimeouts' = staleTimeouts - 1
  /\ TimeoutCallback
  /\ UNCHANGED <<currentCheckTimeout, startupVars, retryTimers, checkVars,
                 downloadVars, installVars, saveVars, initVars, storeVars>>

\* ------------------------------------------------ autoUpdater event handlers
\* autoUpdater.on('checking-for-update')
OnCheckingForUpdate ==
  /\ auChecks["called"] > 0
  /\ auChecks' = [auChecks EXCEPT !["called"] = @ - 1, !["announced"] = @ + 1]
  /\ ClearCheckTimeout
  /\ Publish([updateStatus EXCEPT !.checking = TRUE, !.error = "undefined"], 1)
  /\ UNCHANGED <<startupVars, retryTimers, probing, lastCall, downloadVars,
                 installVars, saveVars, initVars, storeVars>>

\* autoUpdater.on('update-available'): no message until parseReleaseNotes is back
OnUpdateAvailable ==
  /\ auChecks["announced"] > 0
  /\ Room(1)
  /\ auChecks' = [auChecks EXCEPT !["announced"] = @ - 1, !["succeeded"] = @ + 1]
  /\ auUpdateFound' = TRUE
  /\ Publish([updateStatus EXCEPT !.checking = FALSE, !.available = TRUE,
                                  !.retryCount = 0], 0)
  /\ notesPending' = notesPending + 1
  /\ UNCHANGED <<timeoutVars, startupVars, retryTimers, probing, lastCall,
                 autoDlPending, auDownloads, installVars, saveVars, initVars,
                 storeVars>>

\* parseReleaseNotes(info).then(...): updateInfo, message, handleAutoDownload()
ReleaseNotesParsed ==
  /\ notesPending > 0
  /\ notesPending' = notesPending - 1
  /\ Publish([updateStatus EXCEPT !.updateInfo = "info"], 1)
  /\ autoDlPending' = autoDlPending + 1
  /\ UNCHANGED <<timeoutVars, startupVars, retryTimers, checkVars,
                 auDownloads, auUpdateFound, installVars, saveVars, initVars,
                 storeVars>>

\* a downloadUpdate that returns without calling the transport
downloadUpdate_NoCall == UNCHANGED auDownloads

\* downloadUpdate up to its await: autoUpdater.downloadUpdate() is called
downloadUpdate ==
  auDownloads' =
    [auDownloads EXCEPT ![IF auUpdateFound THEN "running" ELSE "refused"] = @ + 1]

\* handleAutoDownload after its getSettings
HandleAutoDownload ==
  /\ autoDlPending > 0
  /\ autoDlPending' = autoDlPending - 1
  /\ IF settings.autoCheckDownloadAndInstall
       THEN downloadUpdate
       ELSE UNCHANGED auDownloads
  /\ Quiet
  /\ UNCHANGED <<timeoutVars, startupVars, retryTimers, checkVars,
                 notesPending, auUpdateFound, installVars, saveVars, initVars,
                 storeVars>>

\* saveLastCheckTime up to its first await
saveLastCheckTime_NotCalled == UNCHANGED saveVars

saveLastCheckTime ==
  /\ savePending' = savePending + 1
  /\ UNCHANGED saveWrites

\* autoUpdater.on('update-not-available')
OnUpdateNotAvailable ==
  /\ auChecks["announced"] > 0
  /\ Room(1)
  /\ auChecks' = [auChecks EXCEPT !["announced"] = @ - 1, !["succeeded"] = @ + 1]
  /\ Publish([updateStatus EXCEPT !.checking = FALSE, !.available = FALSE,
                                  !.retryCount = 0], 1)
  /\ saveLastCheckTime
  /\ UNCHANGED <<timeoutVars, startupVars, retryTimers, probing, lastCall,
                 downloadVars, installVars, initVars, storeVars>>

\* autoUpdater.on('download-progress')
OnDownloadProgress(percent) ==
  /\ auDownloads["running"] > 0
  /\ Publish([updateStatus EXCEPT !.downloading = TRUE,
                                  !.progress = MathRound(percent)], 1)
  /\ UNCHANGED <<timeoutVars, startupVars, retryTimers, checkVars,
                 downloadVars, installVars, saveVars, initVars, storeVars>>

\* autoUpdater.on('update-downloaded')
OnUpdateDownloaded ==
  /\ auDownloads["running"] > 0
  /\ Room(2)
  /\ auDownloads' = [auDownloads EXCEPT !["running"] = @ - 1, !["done"] = @ + 1]
  /\ Publish([updateStatus EXCEPT !.downloading = FALSE, !.downloaded = TRUE,
                                  !.updateInfo = "info"], 1)
  /\ saveLastCheckTime
  /\ dialogs' = dialogs + 1
  /\ UNCHANGED <<timeoutVars, startupVars, retryTimers, checkVars,
                 notesPending, autoDlPending, auUpdateFound, installing,
                 initVars, storeVars>>

\* the operation an error event reports: a check after checking-for-update, a
\* download, or an installation
ErrorSources == {"check", "download", "refused", "install"}

\* autoUpdater.on('error')
OnError(source) ==
  /\ CASE source = "check" ->
            /\ auChecks["announced"] > 0
            /\ auChecks' = [auChecks EXCEPT !["announced"] = @ - 1,
                                            !["failed"] = @ + 1]
            /\ UNCHANGED <<auDownloads, installing>>
       [] source = "download" ->
            /\ auDownloads["running"] > 0
            /\ auDownloads' = [auDownloads EXCEPT !["running"] = @ - 1,
                                                  !["failed"] = @ + 1]
            /\ UNCHANGED <<auChecks, installing>>
       [] source = "refused" ->
            /\ auDownloads["refused"] > 0
            /\ auDownloads' = [auDownloads EXCEPT !["refused"] = @ - 1,
                                                  !["failed"] = @ + 1]
            /\ UNCHANGED <<auChecks, installing>>
       [] source = "install" ->
            /\ installing > 0
            /\ installing' = installing - 1
            /\ UNCHANGED <<auChecks, auDownloads>>
  /\ LET failed == [updateStatus EXCEPT !.checking = FALSE,
                                        !.downloading = FALSE,
                                        !.error = "err.message"]
         retry == handleRetry(failed)
     IN /\ Room(retry.timers)
        /\ retryTimers' = retryTimers + retry.timers
        /\ Publish(retry.status, 1 + retry.sent)
  /\ ClearCheckTimeout
  /\ UNCHANGED <<startupVars, probing, lastCall, notesPending, autoDlPending,
                 auUpdateFound, dialogs, saveVars, initVars, storeVars>>

\* ------------------------------------------------ downloadUpdate, installUpdate
\* the UI (updater:downloadUpdate)
DownloadUpdate ==
  /\ Room(1)
  /\ downloadUpdate
  /\ Quiet
  /\ UNCHANGED <<timeoutVars, startupVars, retryTimers, checkVars,
                 notesPending, autoDlPending, auUpdateFound, installVars,
                 saveVars, initVars, storeVars>>

\* await autoUpdater.downloadUpdate() resolved
DownloadResolved ==
  /\ auDownloads["done"] > 0
  /\ auDownloads' = [auDownloads EXCEPT !["done"] = @ - 1]
  /\ Quiet
  /\ UNCHANGED <<timeoutVars, startupVars, retryTimers, checkVars,
                 notesPending, autoDlPending, auUpdateFound, installVars,
                 saveVars, initVars, storeVars>>

\* await autoUpdater.downloadUpdate() rejected: the catch block
DownloadRejected ==
  /\ auDownloads["failed"] > 0
  /\ auDownloads' = [auDownloads EXCEPT !["failed"] = @ - 1]
  /\ Publish([updateStatus EXCEPT !.error = "err.message"], 1)
  /\ UNCHANGED <<timeoutVars, startupVars, retryTimers, checkVars,
                 notesPending, autoDlPending, auUpdateFound, installVars,
                 saveVars, initVars, storeVars>>

\* installUpdate: autoUpdater.quitAndInstall() is called
installUpdate == installing' = installing + 1

\* the UI (updater:installUpdate)
InstallUpdate ==
  /\ Room(1)
  /\ installUpdate
  /\ Quiet
  /\ UNCHANGED <<timeoutVars, startupVars, retryTimers, checkVars,
                 downloadVars, dialogs, saveVars, initVars, storeVars>>

\* showInstallDialog: the user's answer, 0 = 'Install and Restart'
InstallDialogAnswered(response) ==
  /\ dialogs > 0
  /\ dialogs' = dialogs - 1
  /\ IF response = 0 THEN installUpdate ELSE UNCHANGED installing
  /\ Quiet
  /\ UNCHANGED <<timeoutVars, startupVars, retryTimers, checkVars,
                 downloadVars, saveVars, initVars, storeVars>>

\* ---------------------------------------------------- saveLastCheckTime
\* after getSettings: { ...settings, lastUpdateCheck: Date.now() }, then saveSettings
SaveLastCheckTimeRead ==
  /\ savePending > 0
  /\ savePending' = savePending - 1
  /\ saveWrites' = saveWrites \cup {[settings EXCEPT !.lastUpdateCheck = now]}
  /\ Quiet
  /\ UNCHANGED <<timeoutVars, startupVars, retryTimers, checkVars,
                 downloadVars, installVars, initVars, storeVars>>

\* saveSettings(updatedSettings) stores the whole object; then lastCheckTime = Date.now()
SaveLastCheckTimeWrite(updatedSettings) ==
  /\ updatedSettings \in saveWrites
  /\ saveWrites' = saveWrites \ {updatedSettings}
  /\ settings' = updatedSettings
  /\ lastCheckTime' = now
  /\ Quiet
  /\ UNCHANGED <<timeoutVars, startupVars, retryTimers, checkVars,
                 downloadVars, installVars, savePending, initVars, now>>

\* getSettings or saveSettings threw: the catch block only logs
SaveLastCheckTimeFailed ==
  /\ \/ /\ savePending > 0
        /\ savePending' = savePending - 1
        /\ UNCHANGED saveWrites
     \/ /\ saveWrites # {}
        /\ \E w \in saveWrites : saveWrites' = saveWrites \ {w}
        /\ UNCHANGED savePending
  /\ Quiet
  /\ UNCHANGED <<timeoutVars, startupVars, retryTimers, checkVars,
                 downloadVars, installVars, initVars, storeVars>>

\* ----------------------------------------- construction and updateSettings
\* loadLastCheckTime after getSettings (ok), or its catch block
LoadLastCheckTime(ok) ==
  /\ loadPending
  /\ loadPending' = FALSE
  /\ lastCheckTime' = IF ok THEN settings.lastUpdateCheck ELSE 0
  /\ Quiet
  /\ UNCHANGED <<timeoutVars, startupVars, retryTimers, checkVars,
                 downloadVars, installVars, saveVars, schedPending,
                 updPending, settings, now>>

\* this.checkOnStartupTimer = setTimeout(...): the handle is overwritten, the
\* timer it named stays armed
ArmStartupTimer ==
  /\ checkOnStartupTimer' = "armed"
  /\ staleStartupTimers' = IF checkOnStartupTimer = "armed"
                             THEN staleStartupTimers + 1
                             ELSE staleStartupTimers

\* scheduleStartupCheck after getSettings
ScheduleStartupCheck ==
  /\ schedPending > 0
  /\ schedPending' = schedPending - 1
  /\ IF settings.autoCheckDownloadAndInstall /\ shouldCheckForUpdates
       THEN ArmStartupTimer
       ELSE UNCHANGED startupVars
  /\ Quiet
  /\ UNCHANGED <<timeoutVars, retryTimers, checkVars, downloadVars,
                 installVars, saveVars, loadPending, updPending, storeVars>>

\* clearTimeout(this.checkOnStartupTimer): the handle keeps naming the timer
ClearStartupTimer ==
  /\ checkOnStartupTimer' = IF checkOnStartupTimer = "armed"
                              THEN "fired" ELSE checkOnStartupTimer
  /\ UNCHANGED staleStartupTimers

\* the settings listener calls updateSettings
UpdateSettings ==
  /\ Room(1)
  /\ updPending' = updPending + 1
  /\ Quiet
  /\ UNCHANGED <<timeoutVars, startupVars, retryTimers, checkVars,
                 downloadVars, installVars, saveVars, loadPending,
                 schedPending, storeVars>>

\* updateSettings after getSettings: clear the timers, reschedule if enabled
UpdateSettingsRead ==
  /\ updPending > 0
  /\ updPending' = updPending - 1
  /\ ClearStartupTimer
  /\ IF settings.autoCheckDownloadAndInstall
       THEN schedPending' = schedPending + 1
       ELSE UNCHANGED schedPending
  /\ Quiet
  /\ UNCHANGED <<timeoutVars, retryTimers, checkVars, downloadVars,
                 installVars, saveVars, loadPending, storeVars>>

\* cleanup
Cleanup ==
  /\ ClearStartupTimer
  /\ Quiet
  /\ UNCHANGED <<timeoutVars, retryTimers, checkVars, downloadVars,
                 installVars, saveVars, initVars, storeVars>>

\* ------------------------------------------------------------- environment
\* the settings panel switches autoCheckDownloadAndInstall
ToggleAutoCheck ==
  /\ settings' = [settings EXCEPT !.autoCheckDownloadAndInstall = ~@]
  /\ Quiet
  /\ UNCHANGED <<timeoutVars, startupVars, retryTimers, checkVars,
                 downloadVars, installVars, saveVars, initVars,
                 lastCheckTime, now>>

\* deferUpdate, from the notification of a downloaded update once the save of
\* the update-downloaded handler is through: updater.updateDeferred is
\* persisted as true, the status is left alone
DeferUpdate ==
  /\ updateStatus.downloaded
  /\ savePending = 0 /\ saveWrites = {}
  /\ ~settings.updateDeferred
  /\ settings' = [settings EXCEPT !.updateDeferred = TRUE]
  /\ Quiet
  /\ UNCHANGED <<timeoutVars, startupVars, retryTimers, checkVars,
                 downloadVars, installVars, saveVars, initVars,
                 lastCheckTime, now>>

\* time passes
Tick ==
  /\ \E d \in TickHours : now + d <= MaxNow /\ now' = now + d
  /\ Quiet
  /\ UNCHANGED <<timeoutVars, startupVars, retryTimers, checkVars,
                 downloadVars, installVars, saveVars, initVars, settings,
                 lastCheckTime>>

\* ------------------------------------ the GitHub-release UpdaterManager
\* setState(newState) by a call: this.state, and the call's own record of it
SetState(g, id, status) ==
  [g EXCEPT !.state = status, !.calls[id].lastSet = status]

\* a catch block that answers without setting the state
Caught_StateKept(g, id, step, message) ==
  [g EXCEPT !.calls[id].pc = "returned",
            !.calls[id].failedAt = step,
            !.calls[id].result = [success |-> FALSE, error |-> message]]

\* the catch block of checkForUpdates: setState(error), return the failure
Caught(g, id, step, message) ==
  [SetState(g, id, "error") EXCEPT
     !.calls[id].pc = "returned",
     !.calls[id].failedAt = step,
     !.calls[id].result = [success |-> FALSE, error |-> message]]

\* checkForUpdates up to the getSettings of fetchLatestRelease
GitHubCheckForUpdates(id) ==
  /\ github.calls[id].pc = "ready"
  /\ github' = [SetState(github, id, "checking") EXCEPT
                  !.calls[id].pc = "settings"]
  /\ UNCHANGED <<updaterVars, versionUtils, notesCall, rendererVars>>

\* fetchLatestRelease after getSettings: the repository URL, then fetch
GitHubSettingsRead(id, outcome) ==
  /\ github.calls[id].pc = "settings"
  /\ github' =
       CASE outcome = "url" ->
              [github EXCEPT !.calls[id].pc = "fetch"]
         [] outcome = "no url" ->
              Caught(github, id, "settings", "Repository URL not configured")
         [] outcome = "bad url" ->
              Caught(github, id, "settings", "Invalid GitHub repository URL")
         [] outcome = "rejected" ->
              Caught(github, id, "settings", "error.message")
  /\ UNCHANGED <<updaterVars, versionUtils, notesCall, rendererVars>>

\* fetchLatestRelease after fetch: the response, or the TypeError of a
\* network failure
GitHubFetched(id, response) ==
  /\ github.calls[id].pc = "fetch"
  /\ github' =
       CASE response = "200" ->
              [github EXCEPT !.calls[id].pc = "json",
                             !.calls[id].response = response]
         [] response = "404" ->
              Caught([github EXCEPT !.calls[id].response = response], id,
                     "fetch", "No releases found for this repository")
         [] response = "500" ->
              Caught([github EXCEPT !.calls[id].response = response], id,
                     "fetch", "GitHub API error: 500")
         [] response = "TypeError" ->
              Caught([github EXCEPT !.calls[id].response = response], id,
                     "fetch", "Network error: Unable to connect to GitHub")
  /\ UNCHANGED <<updaterVars, versionUtils, notesCall, rendererVars>>

\* checkForUpdates after fetchLatestRelease: response.json() rejected, or
\* answered null, or a release; tag_name is compared with the running version
GitHubReleaseRead(id, release) ==
  /\ github.calls[id].pc = "json"
  /\ github' =
       CASE release.kind = "rejected" ->
              Caught(github, id, "json", "error.message")
         [] release.kind = "null" ->
              [SetState(github, id, "idle") EXCEPT !.calls[id].pc = "saveRead"]
         [] release.kind = "release" ->
              IF isNewerVersion(github.currentVersion, release.tag_name)
                THEN IF release.assets
                       THEN [SetState(github, id, "available") EXCEPT
                               !.calls[id].pc = "saveRead"]
                       ELSE Caught(github, id, "compare", "error.message")
                ELSE [SetState(github, id, "idle") EXCEPT
                        !.calls[id].pc = "saveRead"]
  /\ UNCHANGED <<updaterVars, versionUtils, notesCall, rendererVars>>

\* saveLastCheckTime after getSettings
GitHubSaveRead(id, ok) ==
  /\ github.calls[id].pc = "saveRead"
  /\ github' = IF ok THEN [github EXCEPT !.calls[id].pc = "saveWrite"]
                     ELSE Caught(github, id, "saveRead", "error.message")
  /\ UNCHANGED <<updaterVars, versionUtils, notesCall, rendererVars>>

\* saveLastCheckTime after saveSettings, and the return of checkForUpdates
GitHubSaveWrite(id, ok) ==
  /\ github.calls[id].pc = "saveWrite"
  /\ github' =
       IF ok THEN [github EXCEPT
                     !.lastUpdateCheck = now,
                     !.lastCheckTime = now,
                     !.calls[id].pc = "returned",
                     !.calls[id].result = [success |-> TRUE, error |-> "none"]]
             ELSE Caught(github, id, "saveWrite", "error.message")
  /\ UNCHANGED <<updaterVars, versionUtils, notesCall, rendererVars>>

\* --------------------------------------------------- parseReleaseNotes
IsSpace(c) == c \in {" ", "\n"}

\* body.split('\n')
RECURSIVE SplitLines(_)
SplitLines(str) ==
  IF \E i \in DOMAIN str : str[i] = "\n"
    THEN LET i == CHOOSE k \in DOMAIN str :
                    str[k] = "\n" /\ \A j \in 1..(k - 1) : str[j] # "\n"
         IN <<SubSeq(str, 1, i - 1)>> \o SplitLines(SubSeq(str, i + 1, Len(str)))
    ELSE <<str>>

\* line.trim()
RECURSIVE Trim(_)
Trim(line) ==
  IF line = <<>> THEN line
  ELSE IF IsSpace(line[1]) THEN Trim(Tail(line))
  ELSE IF IsSpace(line[Len(line)]) THEN Trim(SubSeq(line, 1, Len(line) - 1))
  ELSE line

\* .filter(line => line.length > 0)
NonEmpty(line) == Len(line) > 0

\* the lines of a body, trimmed, the empty ones left out
BodyLines(body) ==
  LET trimmed == [i \in DOMAIN SplitLines(body) |-> Trim(SplitLines(body)[i])]
  IN [i \in DOMAIN SelectSeq(trimmed, NonEmpty) |->
        [kind |-> "line", text |-> SelectSeq(trimmed, NonEmpty)[i]]]

\* [`Version ${info.version} is now available.`]
Fallback(version) == <<[kind |-> "fallback", text |-> version]>>

\* parseReleaseNotes after its fetch: a rejection or a response that is not
\* ok falls through to the fallback
NotesFetched ==
  /\ notesCall.pc = "fetch"
  /\ notesCall' =
       IF notesCall.answer.response = "ok"
         THEN [notesCall EXCEPT !.pc = "json"]
         ELSE [notesCall EXCEPT !.pc = "returned",
                                !.notes = Fallback(notesCall.version)]
  /\ UNCHANGED <<updaterVars, github, versionUtils, rendererVars>>

\* parseReleaseNotes after response.json(): release.body, if truthy, is split
NotesJsonRead ==
  /\ notesCall.pc = "json"
  /\ notesCall' =
       IF /\ notesCall.answer.json = "release"
          /\ notesCall.answer.hasBody
          /\ notesCall.answer.body # <<>>
         THEN [notesCall EXCEPT !.pc = "returned",
                                !.notes = BodyLines(notesCall.answer.body)]
         ELSE [notesCall EXCEPT !.pc = "returned",
                                !.notes = Fallback(notesCall.version)]
  /\ UNCHANGED <<updaterVars, github, versionUtils, rendererVars>>

\* ---------------------------------------- useUpdateStatus (status hook)
\* the states checkForUpdates of the GitHub-release manager sets, one after
\* the other: checking, then idle, available or error
NextStates(state) ==
  IF state = "checking" THEN {"idle", "available", "error"} ELSE {"checking"}

\* the effect: the handler subscribed to updater:status, getUpdateStatus asked
HookMount ==
  /\ hook.request = "none"
  /\ hook' = [hook EXCEPT !.request = "sent"]
  /\ UNCHANGED <<updaterVars, github, versionUtils, notesCall, notification,
                 toasts, deferralHook>>

\* the main process answers getUpdateStatus with the state it has then
HookStatusRequested ==
  /\ hook.request = "sent"
  /\ hook' = [hook EXCEPT !.request = "replied", !.reply = hook.state]
  /\ UNCHANGED <<updaterVars, github, versionUtils, notesCall, notification,
                 toasts, deferralHook>>

\* setState of the manager: the state, then updater:status to the windows
HookSetState(state) ==
  /\ hook.changes < MaxPushes
  /\ state \in NextStates(hook.state)
  /\ hook' = [hook EXCEPT
                !.state = state,
                !.changes = @ + 1,
                !.pushes = IF hook.request = "none" THEN @ ELSE Append(@, state)]
  /\ UNCHANGED <<updaterVars, github, versionUtils, notesCall, notification,
                 toasts, deferralHook>>

\* handler: setUpdaterState(state)
HookPushDelivered ==
  /\ hook.pushes # <<>>
  /\ hook' = [hook EXCEPT !.pushes = Tail(@), !.updaterState = Head(hook.pushes)]
  /\ UNCHANGED <<updaterVars, github, versionUtils, notesCall, notification,
                 toasts, deferralHook>>

\* loadInitialUpdaterState after its await: if (state) setUpdaterState(state)
HookReplyDelivered ==
  /\ hook.request = "replied"
  /\ hook' = [hook EXCEPT !.request = "done", !.updaterState = hook.reply]
  /\ UNCHANGED <<updaterVars, github, versionUtils, notesCall, notification,
                 toasts, deferralHook>>

\* ------------------------------------ useUpdateStatus (with deferral)
\* the state changes of handleUpdateStatus and loadInitialUpdateStatus, and
\* evaluateNotification up to its await
Received(h, status) ==
  [h EXCEPT
     !.updateStatus = <<status>>,
     !.shouldShowNotification =
        IF ~status.downloaded \/ ~status.updateInfo THEN FALSE ELSE @,
     !.lookups = IF ~status.downloaded \/ ~status.updateInfo THEN @ ELSE @ + 1]

\* the effect: the message listener added, getUpdateStatus asked
DeferralHookMount ==
  /\ deferralHook.request = "none"
  /\ deferralHook' = [deferralHook EXCEPT !.request = "sent"]
  /\ UNCHANGED <<updaterVars, github, versionUtils, notesCall, notification,
                 toasts, hook>>

\* the main process answers getUpdateStatus with the status it has then
DeferralStatusRequested ==
  /\ deferralHook.request = "sent"
  /\ deferralHook' = [deferralHook EXCEPT !.request = "replied",
                                          !.reply = deferralHook.status]
  /\ UNCHANGED <<updaterVars, github, versionUtils, notesCall, notification,
                 toasts, hook>>

\* sendStatusToRenderer of the manager
DeferralPublish(status) ==
  /\ deferralHook.changes < MaxPushes
  /\ status \in LaterStatuses(deferralHook.status)
  /\ deferralHook' = [deferralHook EXCEPT
        !.status = status,
        !.changes = @ + 1,
        !.pushes = IF deferralHook.request = "none" THEN @ ELSE Append(@, status)]
  /\ UNCHANGED <<updaterVars, github, versionUtils, notesCall, notification,
                 toasts, hook>>

\* handleUpdateStatus
DeferralPushDelivered ==
  /\ deferralHook.pushes # <<>>
  /\ deferralHook' = Received([deferralHook EXCEPT !.pushes = Tail(@)],
                              Head(deferralHook.pushes))
  /\ UNCHANGED <<updaterVars, github, versionUtils, notesCall, notification,
                 toasts, hook>>

\* loadInitialUpdateStatus after its await
DeferralReplyDelivered ==
  /\ deferralHook.request = "replied"
  /\ deferralHook' = Received([deferralHook EXCEPT !.request = "done"],
                              deferralHook.reply)
  /\ UNCHANGED <<updaterVars, github, versionUtils, notesCall, notification,
                 toasts, hook>>

\* evaluateNotification after getSettings: !deferred, or true when it threw
DeferralLookupDone(ok) ==
  /\ deferralHook.lookups > 0
  /\ deferralHook' = [deferralHook EXCEPT
        !.lookups = @ - 1,
        !.shouldShowNotification =
           IF ok THEN ~deferralHook.updateDeferred ELSE TRUE]
  /\ UNCHANGED <<updaterVars, github, versionUtils, notesCall, notification,
                 toasts, hook>>

\* ---------------------------------------- ToastContainer, ToastProvider
\* updated.slice(-maxToasts): the last maxToasts entries; slice(-0) is
\* slice(0), the whole list
SliceFromEnd(list, n) ==
  IF n = 0 \/ n >= Len(list)
    THEN list
    ELSE SubSeq(list, Len(list) - n + 1, Len(list))

\* addToast / showToast: the functional update of the list
AddToast ==
  /\ toasts.added < MaxAdds
  /\ LET newToast == toasts.added + 1
         updated == Append(toasts.list, newToast)
     IN toasts' = [toasts EXCEPT
                     !.added = newToast,
                     !.list = IF Len(updated) > toasts.maxToasts
                                THEN SliceFromEnd(updated, toasts.maxToasts)
                                ELSE updated]
  /\ UNCHANGED <<updaterVars, github, versionUtils, notesCall, notification,
                 hook, deferralHook>>

\* removeToast, from a toast's onClose
RemoveToast(id) ==
  /\ \E i \in DOMAIN toasts.list : toasts.list[i] = id
  /\ toasts' = [toasts EXCEPT !.list = SelectSeq(@, LAMBDA t : t # id)]
  /\ UNCHANGED <<updaterVars, github, versionUtils, notesCall, notification,
                 hook, deferralHook>>

\* -------------------------------------------------- UpdateNotification
\* the text shown for one note
NoteItem(note) ==
  [kind |-> "note", title |-> note.title,
   shown |-> IF note.length > 60 THEN 60 ELSE note.length,
   ellipsis |-> note.length > 60]

\* releaseNotes.slice(0, 3)
Slice3(list) == SubSeq(list, 1, IF Len(list) < 3 THEN Len(list) ELSE 3)

\* the trailing entry
MoreEntry_FromThree(list) ==
  IF Len(list) >= 3
    THEN <<[kind |-> "more", count |-> Len(list) - 3]>>
    ELSE <<>>

MoreEntry(list) ==
  IF Len(list) > 3
    THEN <<[kind |-> "more", count |-> Len(list) - 3]>>
    ELSE <<>>

\* what the component renders of updateInfo.releaseNotes
RenderNotes(updateInfo) ==
  IF "releaseNotes" \in DOMAIN updateInfo /\ Len(updateInfo.releaseNotes) > 0
    THEN [section |-> TRUE,
          items |-> [i \in 1..Len(Slice3(updateInfo.releaseNotes)) |->
                       NoteItem(Slice3(updateInfo.releaseNotes)[i])]
                    \o MoreEntry(updateInfo.releaseNotes)]
    ELSE [section |-> FALSE, items |-> <<>>]

\* handleDismiss: the leaving animation, then onDismiss 300 ms later
handleDismiss(n) ==
  [n EXCEPT !.isLeaving = TRUE, !.dismissTimers = @ + 1]

\* first render and the effect: the animation frame requested, the
\* auto-dismiss timer armed
NotificationMount ==
  /\ notification.mounted = "not yet"
  /\ notification' = [notification EXCEPT
                        !.mounted = "mounted",
                        !.rendered = RenderNotes(notification.updateInfo),
                        !.frameRequested = TRUE,
                        !.autoTimer = "armed"]
  /\ UNCHANGED <<updaterVars, github, versionUtils, notesCall, toasts, hook,
                 deferralHook>>

\* the requestAnimationFrame callback
AnimationFrame ==
  /\ notification.frameRequested
  /\ notification' = [notification EXCEPT !.frameRequested = FALSE,
                                          !.isVisible = TRUE]
  /\ UNCHANGED <<updaterVars, github, versionUtils, notesCall, toasts, hook,
                 deferralHook>>

\* the 10-second timer
AutoDismissFire ==
  /\ notification.autoTimer = "armed"
  /\ notification' = handleDismiss([notification EXCEPT !.autoTimer = "fired"])
  /\ UNCHANGED <<updaterVars, github, versionUtils, notesCall, toasts, hook,
                 deferralHook>>

\* a click on the close button or on Later
ClickDismiss(button) ==
  /\ notification.mounted = "mounted"
  /\ notification.clicks < MaxClicks
  /\ notification' = handleDismiss([notification EXCEPT !.clicks = @ + 1])
  /\ UNCHANGED <<updaterVars, github, versionUtils, notesCall, toasts, hook,
                 deferralHook>>

\* handleInstallClick
ClickInstall ==
  /\ notification.mounted = "mounted"
  /\ notification.clicks < MaxClicks
  /\ notification' = handleDismiss([notification EXCEPT
                                      !.clicks = @ + 1,
                                      !.onInstallCalls = @ + 1])
  /\ UNCHANGED <<updaterVars, github, versionUtils, notesCall, toasts, hook,
                 deferralHook>>

\* the 300 ms timer of handleDismiss: onDismiss, by which App takes the
\* notification off the screen; the effect's cleanup clears the 10-second timer
DismissTimerFire ==
  /\ notification.dismissTimers > 0
  /\ notification' = [notification EXCEPT
        !.dismissTimers = @ - 1,
        !.onDismissCalls = @ + 1,
        !.onDismissAfterUnmount =
           @ + (IF notification.mounted = "unmounted" THEN 1 ELSE 0),
        !.mounted = "unmounted",
        !.autoTimer = IF @ = "armed" THEN "cleared" ELSE @]
  /\ UNCHANGED <<updaterVars, github, versionUtils, notesCall, toasts, hook,
                 deferralHook>>

\* ------------------------------------------------- uses of VersionUtils
\* isNewerVersion(current, latest) and, the arguments swapped,
\* isNewerVersion(latest, current)
CallIsNewerVersion ==
  /\ versionUtils.call = "isNewerVersion"
  /\ ~versionUtils.returned
  /\ versionUtils' =
       [versionUtils EXCEPT
          !.returned = TRUE,
          !.newer = isNewerVersion(Dotted(versionUtils.current),
                                   Dotted(versionUtils.latest)),
          !.older = isNewerVersion(Dotted(versionUtils.latest),
                                   Dotted(versionUtils.current))]
  /\ UNCHANGED <<updaterVars, github, notesCall, rendererVars>>

\* parseVersion(version)
CallParseVersion ==
  /\ versionUtils.call = "parseVersion"
  /\ ~versionUtils.returned
  /\ versionUtils' = [versionUtils EXCEPT
                        !.returned = TRUE,
                        !.parts = parseVersion(versionUtils.version)]
  /\ UNCHANGED <<updaterVars, github, notesCall, rendererVars>>

\* ---------------------------------------------------------- specifications
\* The whole manager.  Its parts below are checked one at a time; every
\* behaviour of a part is a behaviour of the whole.
Next ==
  \/ \E ok \in BOOLEAN : LoadLastCheckTime(ok)
  \/ ScheduleStartupCheck
  \/ ManualCheck
  \/ \E o \in Origins : ProbeFailed(o)
  \/ \E o \in Origins : CheckStart(o)
  \/ OnCheckingForUpdate
  \/ OnUpdateAvailable
  \/ OnUpdateNotAvailable
  \/ \E p \in Percents : OnDownloadProgress(p)
  \/ OnUpdateDownloaded
  \/ \E src \in ErrorSources : OnError(src)
  \/ CheckResolved
  \/ CheckRejected
  \/ ReleaseNotesParsed
  \/ HandleAutoDownload
  \/ DownloadUpdate
  \/ DownloadResolved
  \/ DownloadRejected
  \/ InstallUpdate
  \/ \E r \in {0, 1} : InstallDialogAnswered(r)
  \/ SaveLastCheckTimeRead
  \/ \E w \in saveWrites : SaveLastCheckTimeWrite(w)
  \/ SaveLastCheckTimeFailed
  \/ UpdateSettings
  \/ UpdateSettingsRead
  \/ Cleanup
  \/ ToggleAutoCheck
  \/ DeferUpdate
  \/ StartupTimerFire
  \/ StaleStartupTimerFire
  \/ RetryTimerFire
  \/ TimeoutFire
  \/ StaleTimeoutFire
  \/ Tick

Spec == Init /\ [][Next]_vars

\* Checking: construction, the three callers of checkForUpdates, the probe,
\* the in-flight timeout, the events of a check, retry, and the helpers a
\* check result starts (an automatic download, which here can only fail).
NextCheck ==
  \/ \E ok \in BOOLEAN : LoadLastCheckTime(ok)
  \/ ScheduleStartupCheck
  \/ ManualCheck
  \/ \E o \in Origins : ProbeFailed(o)
  \/ \E o \in Origins : CheckStart(o)
  \/ OnCheckingForUpdate
  \/ OnUpdateAvailable
  \/ OnUpdateNotAvailable
  \/ \E src \in ErrorSources : OnError(src)
  \/ CheckResolved
  \/ CheckRejected
  \/ ReleaseNotesParsed
  \/ HandleAutoDownload
  \/ DownloadRejected
  \/ SaveLastCheckTimeRead
  \/ \E w \in saveWrites : SaveLastCheckTimeWrite(w)
  \/ SaveLastCheckTimeFailed
  \/ StartupTimerFire
  \/ RetryTimerFire
  \/ TimeoutFire
  \/ StaleTimeoutFire

SpecCheck == Init /\ [][NextCheck]_vars

\* Downloading and installing: construction, a check, the automatic and the
\* manual download, the events of a download, the install dialog, deferral.
NextDownload ==
  \/ \E ok \in BOOLEAN : LoadLastCheckTime(ok)
  \/ ScheduleStartupCheck
  \/ ManualCheck
  \/ \E o \in Origins : CheckStart(o)
  \/ OnCheckingForUpdate
  \/ OnUpdateAvailable
  \/ \E p \in Percents : OnDownloadProgress(p)
  \/ OnUpdateDownloaded
  \/ \E src \in ErrorSources : OnError(src)
  \/ CheckResolved
  \/ CheckRejected
  \/ ReleaseNotesParsed
  \/ HandleAutoDownload
  \/ DownloadUpdate
  \/ DownloadResolved
  \/ DownloadRejected
  \/ InstallUpdate
  \/ \E r \in {0, 1} : InstallDialogAnswered(r)
  \/ DeferUpdate
  \/ SaveLastCheckTimeRead
  \/ \E w \in saveWrites : SaveLastCheckTimeWrite(w)
  \/ RetryTimerFire

SpecDownload == Init /\ [][NextDownload]_vars

\* Scheduling: construction, updateSettings, cleanup, the startup timers and
\* the check they start, up to a result that saves the check time.
NextStartup ==
  \/ \E ok \in BOOLEAN : LoadLastCheckTime(ok)
  \/ ScheduleStartupCheck
  \/ UpdateSettings
  \/ UpdateSettingsRead
  \/ Cleanup
  \/ ToggleAutoCheck
  \/ \E o \in Origins : ProbeFailed(o)
  \/ \E o \in Origins : CheckStart(o)
  \/ OnCheckingForUpdate
  \/ OnUpdateNotAvailable
  \/ CheckResolved
  \/ SaveLastCheckTimeRead
  \/ \E w \in saveWrites : SaveLastCheckTimeWrite(w)
  \/ StartupTimerFire
  \/ StaleStartupTimerFire
  \/ Tick

SpecStartup == Init /\ [][NextStartup]_vars

\* Automatic download: construction, a check from the UI up to its result, the
\* chain parseReleaseNotes -> handleAutoDownload, the download from the UI, a
\* failing download, the setting switched meanwhile.
NextAutoDownload ==
  \/ \E ok \in BOOLEAN : LoadLastCheckTime(ok)
  \/ ScheduleStartupCheck
  \/ ToggleAutoCheck
  \/ ManualCheck
  \/ \E o \in Origins : CheckStart(o)
  \/ OnCheckingForUpdate
  \/ OnUpdateAvailable
  \/ CheckResolved
  \/ ReleaseNotesParsed
  \/ HandleAutoDownload
  \/ DownloadUpdate
  \/ \E src \in ErrorSources : OnError(src)
  \/ CheckRejected
  \/ DownloadRejected
  \/ RetryTimerFire

SpecAutoDownload == Init /\ [][NextAutoDownload]_vars

\* The GitHub-release manager on its own: overlapping checkForUpdates calls.
NextGitHub ==
  \/ \E id \in CallIds : GitHubCheckForUpdates(id)
  \/ \E id \in CallIds, o \in SettingsOutcomes : GitHubSettingsRead(id, o)
  \/ \E id \in CallIds, r \in Responses : GitHubFetched(id, r)
  \/ \E id \in CallIds, r \in Releases : GitHubReleaseRead(id, r)
  \/ \E id \in CallIds, ok \in BOOLEAN : GitHubSaveRead(id, ok)
  \/ \E id \in CallIds, ok \in BOOLEAN : GitHubSaveWrite(id, ok)

SpecGitHub == InitGitHub /\ [][NextGitHub]_vars

\* What changes the check times: every way a check can end, and downloads.
\* Checks are started from the UI; the retry timers stay armed.
NextPersist ==
  \/ \E ok \in BOOLEAN : LoadLastCheckTime(ok)
  \/ ScheduleStartupCheck
  \/ ManualCheck
  \/ \E o \in Origins : ProbeFailed(o)
  \/ \E o \in Origins : CheckStart(o)
  \/ OnCheckingForUpdate
  \/ OnUpdateAvailable
  \/ OnUpdateNotAvailable
  \/ OnUpdateDownloaded
  \/ \E src \in ErrorSources : OnError(src)
  \/ CheckResolved
  \/ CheckRejected
  \/ ReleaseNotesParsed
  \/ HandleAutoDownload
  \/ DownloadUpdate
  \/ DownloadResolved
  \/ \E r \in {0, 1} : InstallDialogAnswered(r)
  \/ SaveLastCheckTimeRead
  \/ \E w \in saveWrites : SaveLastCheckTimeWrite(w)
  \/ SaveLastCheckTimeFailed
  \/ TimeoutFire
  \/ StaleTimeoutFire

SpecPersist == Init /\ [][NextPersist]_vars

\* parseReleaseNotes on its own.
NextNotes ==
  \/ NotesFetched
  \/ NotesJsonRead

SpecNotes == InitNotes /\ [][NextNotes]_vars

\* The status hook, the manager's state changes and the messages between.
NextHook ==
  \/ HookMount
  \/ HookStatusRequested
  \/ \E st \in {"idle", "checking", "available", "error"} : HookSetState(st)
  \/ HookPushDelivered
  \/ HookReplyDelivered

SpecHook == InitHook /\ [][NextHook]_vars

\* The hook with deferral, the manager's statuses and the messages between.
NextDeferralHook ==
  \/ DeferralHookMount
  \/ DeferralStatusRequested
  \/ \E st \in Statuses : DeferralPublish(st)
  \/ DeferralPushDelivered
  \/ DeferralReplyDelivered
  \/ \E ok \in BOOLEAN : DeferralLookupDone(ok)

SpecDeferralHook == InitDeferralHook /\ [][NextDeferralHook]_vars

\* One toast container: toasts added and closed.
NextToasts ==
  \/ AddToast
  \/ \E id \in 1..MaxAdds : RemoveToast(id)

SpecToasts == InitToasts /\ [][NextToasts]_vars

\* One UpdateNotification, its timers and its buttons.
NextNotification ==
  \/ NotificationMount
  \/ AnimationFrame
  \/ AutoDismissFire
  \/ \E button \in {"close", "later"} : ClickDismiss(button)
  \/ ClickInstall
  \/ DismissTimerFire

SpecNotification == InitNotification /\ [][NextNotification]_vars

\* VersionUtils on its own.
NextVersionUtils ==
  \/ CallIsNewerVersion
  \/ CallParseVersion

SpecVersionUtils == InitVersionUtils /\ [][NextVersionUtils]_vars

\* ------------------------------------------------------------------ claims
Flags == {"checking", "available", "downloading", "downloaded"}

\* C1: in every reachable state at most one of the flags checking, available,
\* downloading, downloaded is true
C1_AtMostOneFlag ==
  Cardinality({f \in Flags : updateStatus[f]}) <= 1

\* C2: autoUpdater.checkForUpdates is never invoked while an earlier
\* invocation is unsettled: at most one of its promises is outstanding
C2_SingleCheckInFlight == ChecksOutstanding <= 1

\* a call of checkForUpdates, from the UI, the startup timer or the retry timer
CheckForUpdatesCalled ==
  ManualCheck \/ StartupTimerFire \/ StaleStartupTimerFire \/ RetryTimerFire

\* C3: a checkForUpdates call made while status.checking is true changes no
\* status field, sends no message, arms no timeout timer, starts no probe and
\* does not call autoUpdater.checkForUpdates
C3_CheckWhileCheckingIsNoop ==
  [][(updateStatus.checking /\ CheckForUpdatesCalled)
       => UNCHANGED <<updateStatus, lastBroadcast, currentCheckTimeout,
                      staleTimeouts, probing, auChecks>>]_vars

C3_Witness == updateStatus.checking /\ lastCall = "skipped"

\* C4: while checking is true after checking-for-update, with no result event
\* and the promise of autoUpdater.checkForUpdates unsettled, a 30-second timer
\* is armed that will force checking = false
C4_TimeoutArmedWhileChecking ==
  (updateStatus.checking /\ auChecks["announced"] > 0)
    => (currentCheckTimeout = "armed" \/ staleTimeouts > 0)

\* C5: retryCount never exceeds MAX_RETRY_ATTEMPTS; an error event below the
\* cap adds one to retryCount and arms exactly one retry timer, an error event
\* at the cap changes neither
C5_RetryCountCapped ==
  /\ [](updateStatus.retryCount <= MAX_RETRY_ATTEMPTS)
  /\ [][(\E src \in ErrorSources : OnError(src)) =>
          IF updateStatus.retryCount < MAX_RETRY_ATTEMPTS
            THEN /\ updateStatus'.retryCount = updateStatus.retryCount + 1
                 /\ retryTimers' = retryTimers + 1
            ELSE /\ updateStatus'.retryCount = updateStatus.retryCount
                 /\ retryTimers' = retryTimers]_vars

C5_Witness ==
  /\ updateStatus.retryCount = MAX_RETRY_ATTEMPTS
  /\ updateStatus.error = "Retrying..."
  /\ retryTimers > 0

\* C6: a manual checkForUpdates called after retryCount has reached the cap
\* and automatic retry has stopped leaves retryCount at 0 when it starts its
\* check
C6_ManualCheckResetsRetryCount ==
  [][CheckStart("manual after retries") => updateStatus'.retryCount = 0]_vars

\* C7: the in-flight timeout that forces the error state below the cap
\* increments retryCount and arms a retry timer, as an error event does
C7_TimeoutSchedulesRetry ==
  [][((TimeoutFire \/ StaleTimeoutFire) /\ updateStatus.checking
        /\ updateStatus.retryCount < MAX_RETRY_ATTEMPTS)
       => /\ updateStatus'.retryCount = updateStatus.retryCount + 1
          /\ retryTimers' = retryTimers + 1]_vars

\* C8: autoUpdater.downloadUpdate is invoked only when available is true,
\* downloading and downloaded are false and no download is outstanding
C8_DownloadOnlyFromAvailable ==
  [][DownloadsOutstanding' > DownloadsOutstanding
       => /\ updateStatus.available
          /\ ~updateStatus.downloading
          /\ ~updateStatus.downloaded
          /\ DownloadsOutstanding = 0]_vars

\* C9: autoUpdater.quitAndInstall is invoked only when downloaded is true
C9_InstallOnlyWhenDownloaded ==
  [][installing' > installing => updateStatus.downloaded]_vars

\* the step arms a startup timer
ArmsStartupTimer ==
  /\ checkOnStartupTimer' = "armed"
  /\ checkOnStartupTimer # "armed" \/ staleStartupTimers' > staleStartupTimers

\* C10: with autoCheckDownloadAndInstall enabled, the scheduleStartupCheck of
\* construction arms the startup timer if and only if 24 hours have elapsed
\* since the persisted lastUpdateCheck
C10_StartupCheckIffIntervalElapsed ==
  [][(ScheduleStartupCheck /\ settings.autoCheckDownloadAndInstall)
       => (ArmsStartupTimer
             <=> now - settings.lastUpdateCheck >= CHECK_INTERVAL_24H)]_vars

\* C11: when updateSettings completes having read autoCheckDownloadAndInstall
\* = false, no startup check timer is left armed, neither the one the handle
\* names nor one armed by an earlier scheduleStartupCheck
C11_DisableCancelsStartupTimer ==
  [][(UpdateSettingsRead /\ ~settings.autoCheckDownloadAndInstall)
       => (checkOnStartupTimer' # "armed" /\ staleStartupTimers' = 0)]_vars

\* the continuations that lead from an update-available event to the
\* settings read of handleAutoDownload
AutoDownloadPending == notesPending + autoDlPending

C13_EveryChangeBroadcast ==
  [][updateStatus' # updateStatus => lastBroadcast' = <<updateStatus'>>]_vars

\* C14: every progress value a download-progress event publishes lies in
\* 0..100 and, within one download (downloading already true), is not below
\* the value published before
C14_ProgressMonotoneClamped ==
  [][(\E p \in Percents : OnDownloadProgress(p)) =>
       /\ updateStatus'.progress >= 0
       /\ updateStatus'.progress <= 100
       /\ updateStatus.downloading =>
            updateStatus'.progress >= updateStatus.progress]_vars

\* C15: deferUpdate persists updateDeferred = true and leaves the status
\* unchanged, and the save that an update-downloaded event performs afterwards
\* leaves the persisted updateDeferred false
C15_DownloadClearsDeferral ==
  /\ [][DeferUpdate => (settings'.updateDeferred /\ UNCHANGED updateStatus)]_vars
  /\ [][(\E w \in saveWrites : SaveLastCheckTimeWrite(w))
          => ~settings'.updateDeferred]_vars

\* C16: an error event for a quitAndInstall that was called in the downloaded
\* state arms no retry timer and leaves downloaded and retryCount unchanged
C16_InstallErrorNotRetried ==
  [][(OnError("install") /\ updateStatus.downloaded) =>
       /\ retryTimers' = retryTimers
       /\ updateStatus'.retryCount = updateStatus.retryCount
       /\ updateStatus'.downloaded = updateStatus.downloaded]_vars

\* segments padded with zeros to length n
ZeroPadded(segments, n) ==
  [i \in 1..n |-> IF i <= Len(segments) THEN segments[i] ELSE 0]

\* a is greater than b in lexicographic order, both of the same length
LexGreater(a, b) ==
  \E i \in 1..Len(a) : a[i] > b[i] /\ \A j \in 1..(i - 1) : a[j] = b[j]

\* C19: isNewerVersion(current, latest) is true exactly when the segments of
\* latest, zero-padded, are lexicographically greater than those of current;
\* a version is not newer than itself; isNewerVersion(a, b) and
\* isNewerVersion(b, a) are not both true
C19_IsNewerIsLexicographic ==
  (versionUtils # <<>> /\ versionUtils.call = "isNewerVersion"
     /\ versionUtils.returned) =>
    LET n == IF Len(versionUtils.current) >= Len(versionUtils.latest)
               THEN Len(versionUtils.current) ELSE Len(versionUtils.latest)
        current == ZeroPadded(versionUtils.current, n)
        latest == ZeroPadded(versionUtils.latest, n)
    IN /\ versionUtils.newer <=> LexGreater(latest, current)
       /\ versionUtils.older <=> LexGreater(current, latest)
       /\ versionUtils.current = versionUtils.latest => ~versionUtils.newer
       /\ ~(versionUtils.newer /\ versionUtils.older)

\* isNewerVersion('0.9', '0.10') has returned true
C19_Witness ==
  /\ versionUtils # <<>>
  /\ versionUtils.call = "isNewerVersion"
  /\ versionUtils.returned
  /\ versionUtils.current = <<0, 9>>
  /\ versionUtils.latest = <<0, 10>>
  /\ versionUtils.newer
  /\ ~versionUtils.older

\* a string without its leading characters that are neither digits nor dots
RECURSIVE WithoutPrefix(_)
WithoutPrefix(str) ==
  IF str = <<>> \/ IsDigit(Head(str)) \/ Head(str) = "." THEN str
  ELSE WithoutPrefix(Tail(str))

\* C20: parseVersion drops the leading non-numeric prefix, whatever it is,
\* and splits the rest on dots; a segment of digits parses as its value, a
\* segment that starts with no digit as 0, and no parsed segment is negative
C20_ParseStripsAnyPrefix ==
  (versionUtils # <<>> /\ versionUtils.call = "parseVersion"
     /\ versionUtils.returned) =>
    LET segments == Split(WithoutPrefix(versionUtils.version))
        parts == versionUtils.parts
    IN /\ Len(parts) = Len(segments)
       /\ \A i \in 1..Len(parts) :
            /\ parts[i] >= 0
            /\ (segments[i] = <<>> \/ ~IsDigit(Head(segments[i])))
                 => parts[i] = 0
            /\ (segments[i] # <<>>
                  /\ \A k \in 1..Len(segments[i]) : IsDigit(segments[i][k]))
                 => parts[i] = DigitsValue(segments[i], 0)

\* C17: a checkForUpdates call whose releases/latest lookup answered 404 ends
\* having set the state to idle and returns success = true
C17_NoReleaseIsNotAnError ==
  github # <<>> =>
    \A id \in CallIds :
      (github.calls[id].pc = "returned" /\ github.calls[id].response = "404")
        => /\ github.calls[id].result.success
           /\ github.calls[id].lastSet = "idle"

\* C18: every checkForUpdates call that has returned answered success = false
\* with a message exactly when the last state it set is error, and success =
\* true exactly when the last state it set is idle or available
C18_ResultMatchesLastState ==
  github # <<>> =>
    \A id \in CallIds :
      github.calls[id].pc = "returned" =>
        /\ github.calls[id].lastSet \in {"idle", "available", "error"}
        /\ github.calls[id].result.success
             <=> github.calls[id].lastSet \in {"idle", "available"}
        /\ (~github.calls[id].result.success /\
             github.calls[id].result.error # "none")
             <=> github.calls[id].lastSet = "error"

\* a call set the state to available, then its saveSettings failed and it
\* answered success = false
C18_Witness ==
  /\ github # <<>>
  /\ \E id \in CallIds :
       /\ github.calls[id].pc = "returned"
       /\ github.calls[id].failedAt = "saveWrite"
       /\ github.calls[id].lastSet = "error"
       /\ ~github.calls[id].result.success
  /\ \E id \in CallIds :
       /\ github.calls[id].pc = "returned"
       /\ github.calls[id].result.success
       /\ github.calls[id].lastSet = "available"

\* C21: for a release-notes list of n entries the notification shows
\* min(n, 3) preview entries, made of the first entries in their order, then
\* one '+(n-3) more' entry if and only if n > 3; for n = 0 no notes at all
C21_PreviewCapsAtThree ==
  (notification # <<>> /\ notification.mounted # "not yet"
     /\ "releaseNotes" \in DOMAIN notification.updateInfo) =>
    LET notes == notification.updateInfo.releaseNotes
        n == Len(notes)
        items == notification.rendered.items
        previews == {i \in DOMAIN items : items[i].kind = "note"}
        mores == {i \in DOMAIN items : items[i].kind = "more"}
    IN /\ previews = 1..(IF n < 3 THEN n ELSE 3)
       /\ \A i \in previews : items[i].title = notes[i].title
       /\ n > 3 <=> mores # {}
       /\ \A i \in mores : i = Len(items) /\ i = 4 /\ items[i].count = n - 3
       /\ n = 0 => ~notification.rendered.section /\ items = <<>>

\* a list of five notes shown as three previews and '+2 more'
C21_Witness ==
  /\ notification # <<>>
  /\ notification.mounted = "mounted"
  /\ "releaseNotes" \in DOMAIN notification.updateInfo
  /\ Len(notification.updateInfo.releaseNotes) = 5
  /\ Len(notification.rendered.items) = 4
  /\ notification.rendered.items[4].count = 2

\* C30: whatever the timing of the auto-dismiss timer and of the clicks,
\* onDismiss is invoked at most once, and never after the unmount
C30_DismissedOnce ==
  notification # <<>> =>
    /\ notification.onDismissCalls <= 1
    /\ notification.onDismissAfterUnmount = 0

\* a body made only of blanks and line breaks (or empty)
BlankBody(body) == \A i \in DOMAIN body : IsSpace(body[i])

\* C22: parseReleaseNotes never returns an empty list: one fallback entry
\* naming the version for a missing, empty or blank body and for a failed or
\* non-OK fetch; otherwise the body's non-blank lines, trimmed, in order
C22_NotesNeverEmpty ==
  (notesCall # <<>> /\ notesCall.pc = "returned") =>
    LET a == notesCall.answer
        noBody == \/ a.response # "ok"
                  \/ a.json # "release"
                  \/ ~a.hasBody
                  \/ BlankBody(a.body)
    IN /\ notesCall.notes # <<>>
       /\ noBody => notesCall.notes = Fallback(notesCall.version)
       /\ ~noBody => notesCall.notes = BodyLines(a.body)

\* C23: the write of saveLastCheckTime stores the new lastUpdateCheck without
\* undoing a change of autoCheckDownloadAndInstall that the UI stored between
\* its getSettings and its saveSettings
C23_SaveKeepsUiChange ==
  [][(\E w \in saveWrites : SaveLastCheckTimeWrite(w)) =>
       settings'.autoCheckDownloadAndInstall
         = settings.autoCheckDownloadAndInstall]_vars

\* a check ending in failure: the error event, the exception of
\* autoUpdater.checkForUpdates, the failed preflight, the timeout
CheckFailure ==
  \/ \E src \in ErrorSources : OnError(src)
  \/ CheckRejected
  \/ \E o \in Origins : ProbeFailed(o)
  \/ TimeoutFire
  \/ StaleTimeoutFire

\* the write that ends a saveLastCheckTime call
CheckTimeSaved == \E w \in saveWrites : SaveLastCheckTimeWrite(w)

\* C24, as stated: lastUpdateCheck and lastCheckTime change only through the
\* saves of update-not-available and update-downloaded, and no failing check
\* changes them
C24_OnlyResultEventsPersist ==
  /\ [][(lastCheckTime' # lastCheckTime
          \/ settings'.lastUpdateCheck # settings.lastUpdateCheck)
         => CheckTimeSaved]_vars
  /\ [][savePending' > savePending
         => OnUpdateNotAvailable \/ OnUpdateDownloaded]_vars
  /\ [][CheckFailure => UNCHANGED <<lastCheckTime, settings, saveVars>>]_vars

\* C24, amended: update-not-available and update-downloaded each start one
\* saveLastCheckTime and nothing else does; lastUpdateCheck changes only in
\* the write of such a save, lastCheckTime only there and in
\* loadLastCheckTime at start-up; no failing check changes either or starts
\* a save
C24_OnlyResultEventsPersistAfterLoad ==
  /\ [][settings'.lastUpdateCheck # settings.lastUpdateCheck
         => CheckTimeSaved]_vars
  /\ [][lastCheckTime' # lastCheckTime
         => CheckTimeSaved \/ \E ok \in BOOLEAN : LoadLastCheckTime(ok)]_vars
  /\ [][savePending' > savePending
         => OnUpdateNotAvailable \/ OnUpdateDownloaded]_vars
  /\ [][(OnUpdateNotAvailable \/ OnUpdateDownloaded)
         => savePending' = savePending + 1]_vars
  /\ [][CheckFailure => UNCHANGED <<lastCheckTime, settings, saveVars>>]_vars

\* one check has failed and another has ended with update-not-available: its
\* save is through, and the failure's error is what the status shows
C24_Witness ==
  /\ updateStatus.error # "undefined"
  /\ lastCheckTime = StartNow
  /\ settings.lastUpdateCheck = StartNow
  /\ savePending = 0 /\ saveWrites = {}

\* C25: a retry timer never calls checkForUpdates once a later check has
\* completed with a result and set retryCount back to 0
C25_SupersededRetryNeverFires ==
  [][RetryTimerFire => updateStatus.retryCount > 0]_vars

\* the in-flight timers that are armed, whether the handle still names them
TimeoutsPending ==
  (IF currentCheckTimeout = "armed" THEN 1 ELSE 0) + staleTimeouts

\* C26: at most one in-flight timer is pending at any time, and no timer
\* armed by an earlier check ends the checking of a later one
C26_TimeoutBelongsToItsCheck ==
  /\ [](TimeoutsPending <= 1)
  /\ [][StaleTimeoutFire => (updateStatus.checking => updateStatus'.checking)]_vars

\* C27: once the reply to getUpdateStatus and every pushed updater:status
\* have been delivered, the hook's updaterState is the manager's state
C27_ReplyNeverReplacesNewer ==
  (hook # <<>> /\ hook.request = "done" /\ hook.pushes = <<>>) =>
    hook.updaterState = hook.state

\* C28: shouldShowNotification is true only while the most recently received
\* status has downloaded with updateInfo present: no settings lookup started
\* for an earlier status turns it on after a later status without downloaded
C28_StaleLookupNeverShows ==
  (deferralHook # <<>> /\ deferralHook.shouldShowNotification) =>
    /\ deferralHook.updateStatus # <<>>
    /\ deferralHook.updateStatus[1].downloaded
    /\ deferralHook.updateStatus[1].updateInfo

\* the n entries of a list added last, in the order they were added
RECURSIVE Newest(_, _)
Newest(list, n) ==
  IF Len(list) <= n THEN list ELSE Newest(Tail(list), n)

\* C29: the toast list never holds more than maxToasts entries, and an add
\* that overflows keeps the newest maxToasts entries in insertion order
C29_ToastsBounded ==
  /\ [](toasts # <<>> => Len(toasts.list) <= toasts.maxToasts)
  /\ [][AddToast =>
         toasts'.list = Newest(Append(toasts.list, toasts'.added),
                               toasts.maxToasts)]_vars

====
